---- MODULE Spec2Model ----
(* NDEF message codec (ndef/src/message.rs): NdefMessage construction,     *)
(* NdefMessage::to_buffer and NdefMessage::decode, over a byte-exact model  *)
(* of the record codec the message codec calls.                             *)
EXTENDS Integers, Sequences, FiniteSets, TLC

VARIABLES
    pc,         \* "start" | "idle" | "encode" | "decode" | "failed"
    records,    \* the records vec of the message (self.records / decode's local vec)
    index,      \* to_buffer: number of records already handled by the for loop
    buffer,     \* to_buffer: the local buffer
    passed,     \* to_buffer: the flag argument of each record.to_buffer call so far
    encResult,  \* "none" | "ok" | "err": what the last to_buffer returned
    encOut,     \* the bytes an Ok to_buffer returned
    encoded,    \* the records of the message a to_buffer call was applied to
    data,       \* decode: the input bytes
    wire,       \* decode: the well-formed records the input was assembled from
    cut,        \* decode: number of bytes removed from the end of the input
    origin,     \* "none" | "wire" | "roundtrip": where the decode input came from
    pos,        \* decode: reader.position()
    ends,       \* decode: reader.position() after each record decoded so far
    decResult   \* "none" | "ok" | "record_error" | "mb_error" | "me_error"

vars == <<pc, records, index, buffer, passed, encResult, encOut, encoded,
          data, wire, cut, origin, pos, ends, decResult>>

----------------------------------------------------------------------------
(* Bounds *)

MaxRecords == 3     \* records in a message built through the interface
MaxSlice == 2       \* records in the slice handed to From<slice>
MaxWire == 3        \* records in an input handed to decode
MaxCut == 1         \* bytes removed from the end of an input

----------------------------------------------------------------------------
(* Bytes, flags and the record codec *)

MB == "MB"
ME == "ME"
CF == "CF"
SR == "SR"
IL == "IL"

RecordFlags == {MB, ME, CF, SR, IL}

FlagBit(f) ==
    CASE f = MB -> 128
      [] f = ME -> 64
      [] f = CF -> 32
      [] f = SR -> 16
      [] f = IL -> 8

RECURSIVE FlagBits(_)
FlagBits(S) ==
    IF S = {} THEN 0
    ELSE LET f == CHOOSE x \in S : TRUE
         IN  FlagBit(f) + FlagBits(S \ {f})

\* header byte -> flag set
FlagsOf(b) == {f \in RecordFlags : (b \div FlagBit(f)) % 2 = 1}

\* header byte -> 3-bit type name format
TnfOf(b) == b % 8

Rep(n, b) == [i \in 1..n |-> b]

RECURSIVE Concat(_)
Concat(ss) == IF ss = <<>> THEN <<>> ELSE Head(ss) \o Concat(Tail(ss))

\* the 4-byte payload length field as to_buffer writes it for a record that is
\* not a short record: tests::test_not_sr expects the bytes 2c 01 00 00 for a
\* payload of 300
U32Bytes(n) ==
    << n % 256, (n \div 256) % 256, (n \div 65536) % 256, (n \div 16777216) % 256 >>

\* the 4-byte payload length field of the wire format: payload_len(1|4, BE)
BigEndian32(n) ==
    << (n \div 16777216) % 256, (n \div 65536) % 256, (n \div 256) % 256, n % 256 >>

\* the 4-byte payload length field as decode reads it: big-endian
U32Value(bs) == 16777216 * bs[1] + 65536 * bs[2] + 256 * bs[3] + bs[4]

\* An Option<Vec<u8>> is <<>> for None and <<bytes>> for Some(bytes).
None == <<>>
Some(bs) == <<bs>>

NdefRecord(fl, tnf, ty, id, pl) ==
    [flags |-> fl, tnf |-> tnf, record_type |-> ty, id |-> id, payload |-> pl]

IdBytes(rec) == IF rec.id = None THEN <<>> ELSE rec.id[1]

\* one record on the wire: header, type length, payload length (1 byte when
\* sr, else the 4 bytes plen), id length (only with IL), type, id, payload
RecordBytes(rec, flag, sr, plen) ==
    LET fl == (flag \ {SR, IL})
                \cup (IF sr THEN {SR} ELSE {})
                \cup (IF rec.id # None THEN {IL} ELSE {})
    IN  << FlagBits(fl) + rec.tnf, Len(rec.record_type) >>
        \o (IF sr THEN << Len(rec.payload) >> ELSE plen)
        \o (IF rec.id # None THEN << Len(IdBytes(rec)) >> ELSE <<>>)
        \o rec.record_type \o IdBytes(rec) \o rec.payload

Encodable(rec) ==
    /\ Len(rec.record_type) <= 255
    /\ Len(IdBytes(rec)) <= 255
    /\ Len(rec.payload) \div 65536 <= 65535     \* at most 2^32 - 1

\* NdefRecord::to_buffer(flag)
RecordToBuffer(rec, flag) ==
    IF Encodable(rec)
    THEN [ok |-> TRUE, bytes |-> RecordBytes(rec, flag, Len(rec.payload) <= 255,
                                             U32Bytes(Len(rec.payload)))]
    ELSE [ok |-> FALSE, bytes |-> <<>>]

DecodeFail == [ok |-> FALSE, record |-> NdefRecord({}, 0, <<>>, None, <<>>), pos |-> 0]

\* NdefRecord::decode(reader), the reader standing at position p of d
RecordDecode(d, p) ==
    LET n == Len(d) IN
    IF p + 2 > n THEN DecodeFail
    ELSE
    LET fl  == FlagsOf(d[p + 1])
        tl  == d[p + 2]
        plw == IF SR \in fl THEN 1 ELSE 4
    IN
    IF p + 2 + plw > n THEN DecodeFail
    ELSE IF ~(SR \in fl) /\ d[p + 3] >= 128 THEN DecodeFail   \* 2^31 or more: beyond any input
    ELSE
    LET pl  == IF SR \in fl THEN d[p + 3] ELSE U32Value(SubSeq(d, p + 3, p + 6))
        p2  == p + 2 + plw
        ilw == IF IL \in fl THEN 1 ELSE 0
    IN
    IF p2 + ilw > n THEN DecodeFail
    ELSE
    LET idl == IF IL \in fl THEN d[p2 + 1] ELSE 0
        p3  == p2 + ilw
    IN
    IF p3 + tl + idl + pl > n THEN DecodeFail
    ELSE
    [ok |-> TRUE,
     record |-> NdefRecord(fl, TnfOf(d[p + 1]),
                           SubSeq(d, p3 + 1, p3 + tl),
                           IF IL \in fl THEN Some(SubSeq(d, p3 + tl + 1, p3 + tl + idl))
                                        ELSE None,
                           SubSeq(d, p3 + tl + idl + 1, p3 + tl + idl + pl)),
     pos |-> p3 + tl + idl + pl]

----------------------------------------------------------------------------
(* Inputs *)

\* records as NdefRecord::builder() produces them, and one record that still
\* carries the flags of an earlier decode
BuiltRecords ==
    { NdefRecord({}, 1, <<85>>, None, <<1, 115>>),
      NdefRecord({}, 4, <<83, 112>>, None, Rep(300, 171)),
      NdefRecord({}, 2, <<>>, Some(<<7>>), Rep(255, 9)),
      NdefRecord({}, 0, <<>>, Some(<<>>), Rep(256, 9)),
      NdefRecord({}, 4, Rep(256, 65), None, <<>>),
      NdefRecord({MB, ME, CF, SR}, 1, <<85>>, None, <<>>) }

SeqsUpTo(S, n) == UNION {[1..k -> S] : k \in 0..n}

WireRecord(rec, flag, sr) == [rec |-> rec, flag |-> flag, sr |-> sr]

WireShort == NdefRecord({}, 1, <<85>>, None, <<0, 119>>)
WireLong == NdefRecord({}, 2, <<>>, Some(<<7>>), Rep(256, 171))
WireTiny == NdefRecord({}, 5, <<>>, None, <<1>>)

\* well-formed records as they may stand in an input: any MB/ME/CF flags, and
\* the 4-byte length form also for a payload that would fit a short record
WireRecords ==
    { WireRecord(WireShort, f, TRUE) : f \in SUBSET {MB, ME} }
    \cup { WireRecord(WireLong, f, FALSE) : f \in SUBSET {MB, ME} }
    \cup { WireRecord(WireTiny, {CF}, FALSE), WireRecord(WireTiny, {MB, ME, CF}, FALSE) }

WireBytes(w) == RecordBytes(w.rec, w.flag, w.sr, BigEndian32(Len(w.rec.payload)))

WireData(ws) == Concat([i \in 1..Len(ws) |-> WireBytes(ws[i])])

DropLast(bs, c) == SubSeq(bs, 1, Len(bs) - c)

----------------------------------------------------------------------------
(* NdefMessage *)

\* slip: no case for a sole record
MessageFlagNoSingle(i, n) ==
    IF i = 0 THEN {MB}
    ELSE IF i = n - 1 THEN {ME}
    ELSE {}

\* to_buffer: the flag handed to the record at index i of n records
MessageFlag(i, n) ==
    IF n = 1 THEN {ME, MB}
    ELSE IF i = 0 /\ n > 1 THEN {MB}
    ELSE IF i = n - 1 THEN {ME}
    ELSE {}

\* slip: the negation of is_empty lost
MBNotFirstInverted(flags, recs) == (flags \cap {MB} = {MB}) /\ recs = <<>>

\* slip: MB also demanded of the first record
MBNotFirstStrict(flags, recs) == (flags \cap {MB} = {MB}) # (recs = <<>>)

\* decode: the test that bails with "record MB flag is set , but not first record"
MBNotFirst(flags, recs) == (flags \cap {MB} = {MB}) /\ recs # <<>>

\* slip: the loop left after the first record
AtEndAlways(position, total) == position >= 0

\* decode: the test that ends the loop
AtEnd(position, total) == position >= total

\* slip: MB tested in place of ME
MENotSetWrongFlag(flags) == flags \cap {MB} # {MB}

\* decode: the test that bails with "record ME flag is not set"
MENotSet(flags) == flags \cap {ME} # {ME}

NoEncode ==
    /\ index' = 0 /\ buffer' = <<>> /\ passed' = <<>>
    /\ encResult' = "none" /\ encOut' = <<>> /\ encoded' = <<>>

NoDecode ==
    /\ data' = <<>> /\ wire' = <<>> /\ cut' = 0 /\ origin' = "none"
    /\ pos' = 0 /\ ends' = <<>> /\ decResult' = "none"

Init ==
    /\ pc = "start" /\ records = <<>>
    /\ index = 0 /\ buffer = <<>> /\ passed = <<>>
    /\ encResult = "none" /\ encOut = <<>> /\ encoded = <<>>
    /\ data = <<>> /\ wire = <<>> /\ cut = 0 /\ origin = "none"
    /\ pos = 0 /\ ends = <<>> /\ decResult = "none"

\* #[derive(Default)]
Default ==
    /\ pc = "start"
    /\ pc' = "idle" /\ records' = <<>>
    /\ NoEncode /\ NoDecode

\* impl From<NdefRecord> for NdefMessage
FromRecord ==
    /\ pc = "start"
    /\ \E r \in BuiltRecords : records' = <<r>>
    /\ pc' = "idle"
    /\ NoEncode /\ NoDecode

\* impl<T: AsRef<[NdefRecord]>> From<T> for NdefMessage
FromSlice ==
    /\ pc = "start"
    /\ \E rs \in SeqsUpTo(BuiltRecords, MaxSlice) : records' = rs
    /\ pc' = "idle"
    /\ NoEncode /\ NoDecode

\* NdefMessage::add_record
AddRecord ==
    /\ pc = "idle"
    /\ Len(records) < MaxRecords
    /\ \E r \in BuiltRecords : records' = Append(records, r)
    /\ pc' = "idle"
    /\ NoEncode /\ NoDecode

\* NdefMessage::to_buffer, entry
ToBufferStart ==
    /\ pc = "idle"
    /\ pc' = "encode"
    /\ index' = 0 /\ buffer' = <<>> /\ passed' = <<>>
    /\ encResult' = "none" /\ encOut' = <<>> /\ encoded' = records
    /\ NoDecode
    /\ UNCHANGED records

\* slip: a record that fails to encode is skipped instead of returned with ?
ToBufferIterSkip(recs, i, buf) ==
    LET flag == MessageFlag(i, Len(recs))
        res  == RecordToBuffer(recs[i + 1], flag)
    IN  [err |-> FALSE, flag |-> flag, index |-> i + 1, buffer |-> buf \o res.bytes]

\* one pass of the for loop: on a record error the ? returns the error and the
\* local buffer is dropped
ToBufferIter(recs, i, buf) ==
    LET flag == MessageFlag(i, Len(recs))
        res  == RecordToBuffer(recs[i + 1], flag)
    IN  IF res.ok
        THEN [err |-> FALSE, flag |-> flag, index |-> i + 1, buffer |-> buf \o res.bytes]
        ELSE [err |-> TRUE, flag |-> flag, index |-> i, buffer |-> <<>>]

ToBufferStep ==
    /\ pc = "encode"
    /\ index < Len(records)
    /\ LET it == ToBufferIter(records, index, buffer)
       IN  /\ passed' = Append(passed, it.flag)
           /\ index' = it.index
           /\ buffer' = it.buffer
           /\ IF it.err
              THEN pc' = "idle" /\ encResult' = "err"
              ELSE pc' = "encode" /\ encResult' = "none"
    /\ UNCHANGED <<records, encOut, encoded, data, wire, cut, origin, pos, ends, decResult>>

\* Ok(buffer)
ToBufferReturn ==
    /\ pc = "encode"
    /\ index >= Len(records)
    /\ pc' = "idle" /\ encResult' = "ok" /\ encOut' = buffer
    /\ UNCHANGED <<records, index, buffer, passed, encoded,
                   data, wire, cut, origin, pos, ends, decResult>>

\* NdefMessage::decode, entry, on an input assembled from well-formed records
DecodeInput ==
    /\ pc = "start"
    /\ \E ws \in SeqsUpTo(WireRecords, MaxWire) :
       \E c \in 0..MaxCut :
          /\ c <= Len(WireData(ws))
          /\ wire' = ws /\ cut' = c
          /\ data' = DropLast(WireData(ws), c)
    /\ origin' = "wire"
    /\ pc' = "decode" /\ records' = <<>> /\ pos' = 0 /\ ends' = <<>>
    /\ decResult' = "none"
    /\ NoEncode

\* NdefMessage::decode, entry, on the bytes to_buffer returned
DecodeBuffer ==
    /\ pc = "idle"
    /\ encResult = "ok"
    /\ data' = encOut /\ wire' = <<>> /\ cut' = 0 /\ origin' = "roundtrip"
    /\ pc' = "decode" /\ records' = <<>> /\ pos' = 0 /\ ends' = <<>>
    /\ decResult' = "none"
    /\ UNCHANGED <<index, buffer, passed, encResult, encOut, encoded>>

\* one pass of decode's loop
DecodeIter(d, p, recs) ==
    LET r == RecordDecode(d, p) IN
    IF ~r.ok
    THEN [result |-> "record_error", records |-> <<>>, pos |-> p, read |-> FALSE]
    ELSE IF MBNotFirst(r.record.flags, recs)
    THEN [result |-> "mb_error", records |-> <<>>, pos |-> r.pos, read |-> TRUE]
    ELSE IF AtEnd(r.pos, Len(d))
    THEN IF MENotSet(r.record.flags)
         THEN [result |-> "me_error", records |-> <<>>, pos |-> r.pos, read |-> TRUE]
         ELSE [result |-> "ok", records |-> Append(recs, r.record), pos |-> r.pos, read |-> TRUE]
    ELSE [result |-> "none", records |-> Append(recs, r.record), pos |-> r.pos, read |-> TRUE]

DecodeStep ==
    /\ pc = "decode"
    /\ LET it == DecodeIter(data, pos, records)
       IN  /\ records' = it.records
           /\ pos' = it.pos
           /\ ends' = IF it.read THEN Append(ends, it.pos) ELSE ends
           /\ decResult' = it.result
           /\ pc' = CASE it.result = "none" -> "decode"
                      [] it.result = "ok" -> "idle"
                      [] OTHER -> "failed"
    /\ UNCHANGED <<index, buffer, passed, encResult, encOut, encoded,
                   data, wire, cut, origin>>

Next ==
    \/ Default
    \/ FromRecord
    \/ FromSlice
    \/ AddRecord
    \/ ToBufferStart
    \/ ToBufferStep
    \/ ToBufferReturn
    \/ DecodeInput
    \/ DecodeBuffer
    \/ DecodeStep

Spec == Init /\ [][Next]_vars

TypeOK ==
    /\ pc \in {"start", "idle", "encode", "decode", "failed"}
    /\ encResult \in {"none", "ok", "err"}
    /\ decResult \in {"none", "ok", "record_error", "mb_error", "me_error"}
    /\ pos \in 0..Len(data)

----------------------------------------------------------------------------
(* Properties *)

SameContent(a, b) ==
    /\ a.tnf = b.tnf
    /\ a.record_type = b.record_type
    /\ a.id = b.id
    /\ a.payload = b.payload

\* C1 (round trip): decode applied to the bytes to_buffer returned for a
\* message of n >= 1 records succeeds and returns n records whose tnf,
\* record_type, id and payload equal those of the encoded message, in order.
RoundTrip ==
    (origin = "roundtrip" /\ pc # "decode" /\ Len(encoded) >= 1) =>
        /\ decResult = "ok"
        /\ Len(records) = Len(encoded)
        /\ \A i \in 1..Len(encoded) : SameContent(records[i], encoded[i])

\* C2 (encode framing): in to_buffer the record at index i of n >= 1 records
\* is handed MB iff i = 0, ME iff i = n - 1, and never CF, whatever flags the
\* records themselves carry.
EncodeFraming ==
    \A k \in 1..Len(passed) :
        /\ (MB \in passed[k]) <=> (k - 1 = 0)
        /\ (ME \in passed[k]) <=> (k - 1 = Len(encoded) - 1)
        /\ CF \notin passed[k]

EncodeFramingWitness ==
    /\ encResult = "ok" /\ Len(passed) = 3 /\ Len(encoded) = 3
    /\ encoded[2].flags = {MB, ME, CF, SR}

HasLateMB(ws) == \E j \in 2..Len(ws) : MB \in ws[j].flag

FirstLateMB(ws) ==
    CHOOSE j \in 2..Len(ws) :
        MB \in ws[j].flag /\ \A k \in 2..(j - 1) : MB \notin ws[k].flag

\* C3 (decode rejects MB on a non-first record): on an input of k >= 2
\* well-formed records of which one after the first has MB set, decode returns
\* the MB framing error and no message; the error is raised when the first
\* such record has been decoded, and no later record is decoded.
DecodeRejectsLateMB ==
    (origin = "wire" /\ cut = 0 /\ HasLateMB(wire)) =>
        /\ Len(ends) <= FirstLateMB(wire)
        /\ decResult \in {"none", "mb_error"}
        /\ pc # "decode" =>
              /\ pc = "failed" /\ decResult = "mb_error"
              /\ records = <<>>
              /\ Len(ends) = FirstLateMB(wire)

DecodeRejectsLateMBWitness ==
    /\ origin = "wire" /\ cut = 0 /\ Len(wire) = 3
    /\ MB \in wire[2].flag /\ ME \in wire[3].flag
    /\ decResult = "mb_error" /\ Len(ends) = 2

\* C4 (decode rejects missing ME): on an input of k >= 1 well-formed records
\* whose last record has ME clear, decode returns a framing error and no
\* message.
DecodeRejectsMissingME ==
    (origin = "wire" /\ cut = 0 /\ Len(wire) >= 1 /\ ME \notin wire[Len(wire)].flag) =>
        /\ decResult \in {"none", "mb_error", "me_error"}
        /\ pc # "decode" =>
              /\ pc = "failed" /\ decResult \in {"mb_error", "me_error"}
              /\ records = <<>>

DecodeRejectsMissingMEWitness ==
    /\ origin = "wire" /\ cut = 0 /\ Len(wire) = 2
    /\ ME \notin wire[2].flag
    /\ decResult = "me_error" /\ Len(ends) = 2

\* C5 (framing of a decoded message): in every message a successful decode
\* returns, exactly one record carries ME and it is the last, and exactly one
\* record carries MB and it is the first.
DecodedFraming ==
    decResult = "ok" =>
        /\ \A i \in 1..Len(records) : (ME \in records[i].flags) <=> (i = Len(records))
        /\ \A i \in 1..Len(records) : (MB \in records[i].flags) <=> (i = 1)

\* C6 (decode leniency on the first record): on an input of k >= 1 well-formed
\* records with MB clear on every record after the first and ME set on the
\* last, decode succeeds with k records, also when the first record has MB
\* clear.
DecodeLenientFirst ==
    (origin = "wire" /\ cut = 0 /\ Len(wire) >= 1
        /\ ~HasLateMB(wire) /\ ME \in wire[Len(wire)].flag) =>
        /\ decResult \in {"none", "ok"}
        /\ pc # "decode" =>
              /\ pc = "idle" /\ decResult = "ok"
              /\ Len(records) = Len(wire)

DecodeLenientFirstWitness ==
    /\ origin = "wire" /\ cut = 0 /\ Len(wire) = 3
    /\ MB \notin wire[1].flag
    /\ decResult = "ok" /\ Len(records) = 3

\* C7 (short record boundary): a one-record message whose payload has length
\* L <= 255 encodes with SR set and the 1-byte length field L; with L >= 256
\* it encodes with SR clear and a 4-byte length field holding L in big-endian
\* byte order.
ShortRecordBoundary ==
    (encResult = "ok" /\ Len(encoded) = 1) =>
        LET L == Len(encoded[1].payload) IN
        IF L <= 255
        THEN SR \in FlagsOf(encOut[1]) /\ encOut[3] = L
        ELSE SR \notin FlagsOf(encOut[1]) /\ SubSeq(encOut, 3, 6) = BigEndian32(L)

\* C8 (non-empty message): every message reachable through the interface
\* holds at least one record, and to_buffer never returns Ok with no bytes.
NonEmptyMessage ==
    /\ pc \in {"idle", "encode"} => Len(records) >= 1
    /\ encResult = "ok" => encOut # <<>>

\* bytes a returned record took on the wire, from its own fields and flags
ConsumedBy(rec) ==
    2 + (IF SR \in rec.flags THEN 1 ELSE 4) + (IF IL \in rec.flags THEN 1 ELSE 0)
      + Len(rec.record_type) + Len(IdBytes(rec)) + Len(rec.payload)

RECURSIVE SumConsumed(_)
SumConsumed(recs) ==
    IF recs = <<>> THEN 0 ELSE ConsumedBy(Head(recs)) + SumConsumed(Tail(recs))

DecodeProgress ==
    /\ pos <= Len(data)
    /\ \A k \in 1..Len(ends) : ends[k] > (IF k = 1 THEN 0 ELSE ends[k - 1])
    /\ (pc = "decode" /\ ends # <<>>) => pos < Len(data)
    /\ decResult = "ok" =>
          /\ Len(records) >= 1
          /\ Len(ends) = Len(records)
          /\ pos = Len(data)
          /\ SumConsumed(records) = Len(data)

\* a pass of the loop that does not return moves the cursor forward, within
\* the same input
DecodeAdvances ==
    (pc = "decode" /\ pc' = "decode") =>
        /\ data' = data
        /\ pos' > pos
        /\ pos' <= Len(data)

\* C9 (decode termination and full consumption): every pass of decode's loop
\* either returns or moves the cursor forward by at least one byte within the
\* finite input, so the loop ends after at most Len(data) passes; the
\* loop goes on only while the cursor is before the end of the input, and a
\* successful decode returns at least one record, the returned records
\* accounting for every input byte.
DecodeTerminates ==
    /\ []DecodeProgress
    /\ [][DecodeAdvances]_vars

DecodeTerminatesWitness ==
    /\ origin = "wire" /\ decResult = "ok"
    /\ Len(records) = 3 /\ pos = Len(data)
    /\ \E i \in 1..3 : SR \notin records[i].flags

SomeUnencodable(recs) == \E i \in 1..Len(recs) : ~RecordToBuffer(recs[i], {}).ok

FirstUnencodable(recs) ==
    CHOOSE i \in 1..Len(recs) :
        ~RecordToBuffer(recs[i], {}).ok
        /\ \A k \in 1..(i - 1) : RecordToBuffer(recs[k], {}).ok

\* C10 (encode error atomicity): to_buffer returns an error iff the encoding
\* of some record fails; it then returns at the first failing record, with no
\* bytes of the records before it, without encoding any record after it; the
\* message's records are unchanged by the call.
EncodeErrorAtomic ==
    /\ pc = "encode" => records = encoded
    /\ (pc = "idle" /\ encResult # "none" /\ origin = "none") =>
          /\ records = encoded
          /\ (encResult = "err") <=> SomeUnencodable(encoded)
    /\ encResult = "err" =>
          /\ buffer = <<>> /\ encOut = <<>>
          /\ Len(passed) = FirstUnencodable(encoded)

EncodeErrorAtomicWitness ==
    /\ encResult = "err" /\ Len(encoded) = 3
    /\ RecordToBuffer(encoded[1], {}).ok
    /\ ~RecordToBuffer(encoded[2], {}).ok
    /\ Len(passed) = 2

====
